---- MODULE Spec2Model ----
(***************************************************************************)
(* Model of lambda/index.py: the chat request translator lambda_handler.   *)
(*                                                                         *)
(* One invocation is two steps, split at the only blocking operation (the  *)
(* synchronous urlopen): Invoke runs the handler up to the outbound POST   *)
(* (or to the error envelope when it fails before), Downstream delivers    *)
(* what urlopen produces and runs the handler to its return.  Return hands *)
(* the envelope to the platform, after which the next invocation starts.   *)
(*                                                                         *)
(* JSON values are tagged records: [t |-> "null"], [t |-> "str", v |-> s], *)
(* [t |-> "list", v |-> <<...>>], [t |-> "obj", v |-> f] where f is a      *)
(* function from the keys that are present to their values.  A text (a     *)
(* str or bytes holding a document) is [t |-> "text", utf8, json, value].  *)
(* An exception message, str(error), is a sequence of string tokens so     *)
(* that "the message contains the status code" can be evaluated.           *)
(***************************************************************************)
EXTENDS Integers, Sequences, FiniteSets, TLC

VARIABLES
    FASTAPI_ENDPOINT_URL, \* the module variable read once from the environment
    pc,        \* "idle", "calling" (blocked in urlopen) or "done" (returning)
    event,     \* the event of the invocation in progress
    calls,     \* the outbound requests issued by the invocation in progress
    reply,     \* what urlopen produced for it
    returned   \* the envelope it returns

vars == <<FASTAPI_ENDPOINT_URL, pc, event, calls, reply, returned>>

\* Longest inbound conversationHistory that is enumerated.
MaxHistLen == 2

----------------------------------------------------------------------------
\* JSON values

Null == [t |-> "null"]

Str(s) == [t |-> "str", v |-> s]

List(s) == [t |-> "list", v |-> s]

Obj(f) == [t |-> "obj", v |-> f]

EmptyMap == [k \in {} |-> Null]

\* A document held in a str / bytes object.  utf8: the bytes decode as
\* UTF-8; json: the decoded text is a JSON document; value: what it denotes.
Text(val) == [t |-> "text", utf8 |-> TRUE, json |-> TRUE, value |-> val]

NotJsonText == [t |-> "text", utf8 |-> TRUE, json |-> FALSE, value |-> Null]

BadBytes == [t |-> "text", utf8 |-> FALSE, json |-> FALSE, value |-> Null]

\* Python truthiness of a JSON value, as used by `not x`.
Truthy(x) ==
    CASE x.t = "null" -> FALSE
      [] x.t = "str"  -> x.v # ""
      [] x.t = "list" -> x.v # <<>>
      [] x.t = "obj"  -> DOMAIN x.v # {}
      [] OTHER        -> TRUE

\* Results of a step that may raise: a value, or the raised exception's text.
Ok(val) == [ok |-> TRUE, value |-> val]

Raise(msg) == [ok |-> FALSE, error |-> msg]

\* str(status code), as formatted into the f-strings.
StatusText(code) ==
    CASE code = 200 -> "200"
      [] code = 201 -> "201"
      [] code = 204 -> "204"
      [] code = 404 -> "404"
      [] code = 500 -> "500"

----------------------------------------------------------------------------
\* Inputs

ConfiguredUrl == Str("http://fastapi.internal/generate")

\* What os.environ.get can leave in the module variable.
UrlValues == {Null, Str(""), ConfiguredUrl}

Turns == { Obj([role |-> Str("user"), content |-> Str("hi")]),
           Obj([role |-> Str("assistant"), content |-> Str("yo")]) }

Histories == UNION { [1..n -> Turns] : n \in 0..MaxHistLen }

Messages == { Str("there"), Str("") }

\* Parsed inbound bodies that carry a message.
MessageBodies ==
    { Obj([message |-> m]) : m \in Messages }
    \cup { Obj([message |-> m, conversationHistory |-> h]) :
             m \in Messages, h \in {Null} \cup { List(s) : s \in Histories } }

\* Values of event['body'].
BodyValues ==
    { Null, NotJsonText, Text(List(<<>>)), Text(Obj(EmptyMap)) }
    \cup { Text(b) : b \in MessageBodies }

Claims == { Obj([email |-> Str("a@example.com")]), Obj(EmptyMap), Null }

\* Values of event['requestContext'].
RequestContexts ==
    { Obj(EmptyMap), Obj([authorizer |-> Obj(EmptyMap)]) }
    \cup { Obj([authorizer |-> Obj([claims |-> c])]) : c \in Claims }

Events ==
    { EmptyMap }
    \cup { [body |-> b] : b \in BodyValues }
    \cup { [requestContext |-> rc] : rc \in RequestContexts }
    \cup { [body |-> b, requestContext |-> rc] :
             b \in BodyValues, rc \in RequestContexts }

\* Bodies a downstream 200 response can carry.
DownstreamBodies ==
    { BadBytes, NotJsonText, Text(List(<<>>)), Text(Obj(EmptyMap)),
      Text(Obj([generated_text |-> Null])),
      Text(Obj([generated_text |-> Str("")])),
      Text(Obj([generated_text |-> Str("ok")])),
      Text(Obj([generated_text |-> Str("ok"),
                conversationHistory |->
                  List(<<Obj([role |-> Str("system"), content |-> Str("sum")])>>)])) }

\* What urlopen produces: a response object (2xx), an HTTPError (the
\* transport reports the other statuses this way), or a URLError.
Replies ==
    { [kind |-> "response", code |-> 200, body |-> b] : b \in DownstreamBodies }
    \cup { [kind |-> "response", code |-> c, body |-> Text(Obj(EmptyMap))] :
             c \in {201, 204} }
    \cup { [kind |-> "HTTPError", code |-> 404, reason |-> "Not Found",
            readable |-> r, body |-> b] :
             r \in BOOLEAN, b \in {NotJsonText, BadBytes} }
    \cup { [kind |-> "HTTPError", code |-> 500, reason |-> "Internal Server Error",
            readable |-> TRUE, body |-> NotJsonText] }
    \cup { [kind |-> "URLError", reason |-> "[Errno 111] Connection refused"] }

NoEvent == [none |-> TRUE]

NoReply == [kind |-> "none"]

NoEnvelope == [statusCode |-> 0]

----------------------------------------------------------------------------
\* Library operations used by the handler

\* dict.get(key, default)
Get(obj, key, default) == IF key \in DOMAIN obj.v THEN obj.v[key] ELSE default

\* bytes.decode('utf-8')
decode(b) ==
    IF b.utf8 THEN Ok(b)
    ELSE Raise(<<"'utf-8' codec can't decode byte", "0xff", "in position",
                 "0:", "invalid start byte">>)

\* json.loads
json_loads(s) ==
    IF s.t # "text"
    THEN Raise(<<"the JSON object must be str, bytes or bytearray, not NoneType">>)
    ELSE IF ~s.json
    THEN Raise(<<"Expecting value: line 1 column 1 (char 0)">>)
    ELSE Ok(s.value)

\* json.dumps
json_dumps(val) == Text(val)

----------------------------------------------------------------------------
\* lambda_handler, up to the outbound call

\* Variant of ConfigCheck: tests `is None`, so the empty string passes.
ConfigCheckNoneOnly(url) ==
    IF url.t = "null"
    THEN Raise(<<"Environment variable 'FASTAPI_ENDPOINT_URL' is not set.">>)
    ELSE Ok(url)

\* if not FASTAPI_ENDPOINT_URL: raise ValueError
ConfigCheck(url) ==
    IF ~Truthy(url)
    THEN Raise(<<"Environment variable 'FASTAPI_ENDPOINT_URL' is not set.">>)
    ELSE Ok(url)

\* The identity claims read for the log line.
user_info(ev) ==
    IF "requestContext" \in DOMAIN ev
       /\ "authorizer" \in DOMAIN ev.requestContext.v
    THEN LET authorizer == ev.requestContext.v.authorizer IN
         IF "claims" \notin DOMAIN authorizer.v
         THEN Raise(<<"'claims'">>)
         ELSE IF authorizer.v.claims.t # "obj"
         THEN Raise(<<"'NoneType' object has no attribute 'get'">>)
         ELSE Ok(authorizer.v.claims)
    ELSE Ok(Null)

\* body = json.loads(event['body'])
body(ev) ==
    IF "body" \notin DOMAIN ev
    THEN Raise(<<"'body'">>)
    ELSE json_loads(ev.body)

\* Variant of message: body.get('message', ''), no KeyError.
messageWithDefault(b) ==
    IF b.t = "list"
    THEN Raise(<<"list indices must be integers or slices, not str">>)
    ELSE Ok(Get(b, "message", Str("")))

\* message = body['message']
message(b) ==
    IF b.t = "list"
    THEN Raise(<<"list indices must be integers or slices, not str">>)
    ELSE IF "message" \notin DOMAIN b.v
    THEN Raise(<<"'message'">>)
    ELSE Ok(b.v.message)

\* The default of body.get('conversationHistory', []): a new empty list.
DefaultHistory == List(<<>>)

\* conversation_history = body.get('conversationHistory', [])
conversation_history(b) == Get(b, "conversationHistory", DefaultHistory)

request_data(msg, hist) == Obj([prompt |-> msg, conversationHistory |-> hist])

\* urllib.request.Request(url, data=post_data, headers=..., method='POST')
req(url, msg, hist) ==
    [ url     |-> url,
      data    |-> json_dumps(request_data(msg, hist)),
      headers |-> [ContentType |-> "application/json"],
      method  |-> "POST" ]

\* Everything before urlopen: the first exception raised, or the locals
\* and the request that is about to be sent.
PreCall(url, ev) ==
    LET cfg == ConfigCheck(url) IN
    IF ~cfg.ok THEN cfg ELSE
    LET usr == user_info(ev) IN
    IF ~usr.ok THEN usr ELSE
    LET bdy == body(ev) IN
    IF ~bdy.ok THEN bdy ELSE
    LET msg == message(bdy.value) IN
    IF ~msg.ok THEN msg ELSE
    LET hist == conversation_history(bdy.value) IN
    [ ok |-> TRUE, message |-> msg.value, conversation_history |-> hist,
      req |-> req(url, msg.value, hist) ]

----------------------------------------------------------------------------
\* lambda_handler, from the outbound call to the return

\* Variant of AssistantResponse: reads the key "response".
AssistantResponseOtherKey(api_response) == Get(api_response, "response", Null)

\* assistant_response = api_response.get("generated_text")
AssistantResponse(api_response) == Get(api_response, "generated_text", Null)

\* Variant of NoContent: tests `is None`, so the empty string passes.
NoContentNoneOnly(assistant_response) == assistant_response.t = "null"

\* if not assistant_response: raise
NoContent(assistant_response) == ~Truthy(assistant_response)

\* Variant of messages: starts from updated_history.
messagesFromUpdated(hist, msg, assistant_response, updated_history) ==
    IF updated_history.t # "list"
    THEN Raise(<<"'NoneType' object has no attribute 'copy'">>)
    ELSE Ok(List(updated_history.v
                 \o << Obj([role |-> Str("user"), content |-> msg]),
                       Obj([role |-> Str("assistant"),
                            content |-> assistant_response]) >>))

\* messages = conversation_history.copy(); two appends.  updated_history is
\* computed by the handler and is in scope here.
messages(hist, msg, assistant_response, updated_history) ==
    IF hist.t # "list"
    THEN Raise(<<"'NoneType' object has no attribute 'copy'">>)
    ELSE Ok(List(hist.v \o << Obj([role |-> Str("user"), content |-> msg]),
                             Obj([role |-> Str("assistant"),
                                  content |-> assistant_response]) >>))

\* The body of `with urlopen(req) as response` for a response object.
OnResponse(hist, msg, r) ==
    IF r.code = 200
    THEN LET response_body == decode(r.body) IN
         IF ~response_body.ok THEN response_body ELSE
         LET parsed == json_loads(response_body.value) IN
         IF ~parsed.ok THEN parsed ELSE
         LET api_response == parsed.value IN
         IF api_response.t # "obj"
         THEN Raise(<<"'list' object has no attribute 'get'">>)
         ELSE
         LET assistant_response == AssistantResponse(api_response)
             updated_history == Get(api_response, "conversationHistory", hist)
         IN  IF NoContent(assistant_response)
             THEN Raise(<<"No generated_text content received from FastAPI endpoint.">>)
             ELSE LET msgs == messages(hist, msg, assistant_response, updated_history) IN
                  IF ~msgs.ok THEN msgs
                  ELSE [ ok |-> TRUE, assistant_response |-> assistant_response,
                         messages |-> msgs.value ]
    ELSE Raise(<<"FastAPI endpoint returned status code", StatusText(r.code)>>)

\* except urllib.error.HTTPError as e.  error_content is the decoded body,
\* or the text 'No details' when e is not readable; it is only printed.
OnHTTPError(e) ==
    LET error_content == IF e.readable THEN decode(e.body) ELSE Ok(NotJsonText) IN
    IF ~error_content.ok THEN error_content
    ELSE Raise(<<"Failed to call FastAPI endpoint:", StatusText(e.code), e.reason>>)

\* except urllib.error.URLError as e
OnURLError(e) == Raise(<<"Failed to connect to FastAPI endpoint:", e.reason>>)

\* The inner try statement, given what urlopen produced.
PostCall(hist, msg, r) ==
    CASE r.kind = "response"  -> OnResponse(hist, msg, r)
      [] r.kind = "HTTPError" -> OnHTTPError(r)
      [] r.kind = "URLError"  -> OnURLError(r)

CORS_HEADERS ==
    [ ContentType |-> "application/json",
      AccessControlAllowOrigin  |-> "*",
      AccessControlAllowHeaders |->
        "Content-Type,X-Amz-Date,Authorization,X-Api-Key,X-Amz-Security-Token",
      AccessControlAllowMethods |-> "OPTIONS,POST" ]

\* return {"statusCode": 200, ...}
SuccessEnvelope(assistant_response, msgs) ==
    [ statusCode |-> 200,
      headers    |-> CORS_HEADERS,
      body       |-> json_dumps(Obj([ success |-> TRUE,
                                      response |-> assistant_response,
                                      conversationHistory |-> msgs ])) ]

\* Variant of ErrorEnvelope: the error path omits the CORS headers.
ErrorEnvelopeNoCors(error) ==
    [ statusCode |-> 500,
      headers    |-> [ContentType |-> "application/json"],
      body       |-> json_dumps(Obj([ success |-> FALSE, error |-> error ])) ]

\* except Exception as error: return {"statusCode": 500, ...}
ErrorEnvelope(error) ==
    [ statusCode |-> 500,
      headers    |-> CORS_HEADERS,
      body       |-> json_dumps(Obj([ success |-> FALSE, error |-> error ])) ]

\* The envelope for the outcome of a step of the handler.
Envelope(result) ==
    IF result.ok
    THEN SuccessEnvelope(result.assistant_response, result.messages)
    ELSE ErrorEnvelope(result.error)

\* Variant of CallsAfterReply: a failed call is issued once more.
CallsAfterReplyRetry(issued, result) ==
    IF result.ok THEN issued ELSE issued \o issued

\* The outbound calls issued so far once urlopen has produced its result:
\* every path after it raises or returns, none calls urlopen again.
CallsAfterReply(issued, result) == issued

----------------------------------------------------------------------------
Init ==
    /\ FASTAPI_ENDPOINT_URL \in UrlValues
    /\ pc = "idle"
    /\ event = NoEvent
    /\ calls = <<>>
    /\ reply = NoReply
    /\ returned = NoEnvelope

\* The platform invokes lambda_handler(event, context); the handler runs
\* until it returns the error envelope or blocks in urlopen.
Invoke(evs) ==
    /\ pc = "idle"
    /\ \E ev \in evs :
         LET pre == PreCall(FASTAPI_ENDPOINT_URL, ev) IN
         /\ event' = ev
         /\ IF pre.ok
            THEN /\ calls' = <<pre.req>>
                 /\ returned' = NoEnvelope
                 /\ pc' = "calling"
            ELSE /\ calls' = <<>>
                 /\ returned' = Envelope(pre)
                 /\ pc' = "done"
    /\ reply' = NoReply
    /\ UNCHANGED FASTAPI_ENDPOINT_URL

\* urlopen produces its result and the handler runs to its return.
Downstream(rs) ==
    /\ pc = "calling"
    /\ \E r \in rs :
         LET pre == PreCall(FASTAPI_ENDPOINT_URL, event)
             result == PostCall(pre.conversation_history, pre.message, r)
         IN  /\ reply' = r
             /\ returned' = Envelope(result)
             /\ calls' = CallsAfterReply(calls, result)
    /\ pc' = "done"
    /\ UNCHANGED <<FASTAPI_ENDPOINT_URL, event>>

\* The envelope is handed to the platform; nothing of the invocation stays.
Return ==
    /\ pc = "done"
    /\ pc' = "idle"
    /\ event' = NoEvent
    /\ calls' = <<>>
    /\ reply' = NoReply
    /\ returned' = NoEnvelope
    /\ UNCHANGED FASTAPI_ENDPOINT_URL

Next ==
    \/ Invoke(Events)
    \/ Downstream(Replies)
    \/ Return

Spec == Init /\ [][Next]_vars

----------------------------------------------------------------------------
\* Vocabulary of the properties, read off the event, the reply and the
\* returned envelope only.

Done == pc = "done"

Configured == FASTAPI_ENDPOINT_URL.t = "str" /\ FASTAPI_ENDPOINT_URL.v # ""

\* The decoded JSON object in the body of the returned envelope.
Payload == returned.body.value.v

Contains(msg, tok) == \E i \in 1..Len(msg) : msg[i] = tok

\* event['body'] is a JSON document that denotes an object with key message.
HasMessage(ev) ==
    /\ "body" \in DOMAIN ev
    /\ ev.body.t = "text" /\ ev.body.json
    /\ ev.body.value.t = "obj"
    /\ "message" \in DOMAIN ev.body.value.v

InboundObject(ev) == ev.body.value.v

HistoryAbsent(ev) == "conversationHistory" \notin DOMAIN InboundObject(ev)

\* Valid inbound event: a non-empty string message, conversationHistory
\* absent or a sequence.
ValidInbound(ev) ==
    /\ HasMessage(ev)
    /\ InboundObject(ev).message.t = "str" /\ InboundObject(ev).message.v # ""
    /\ HistoryAbsent(ev) \/ InboundObject(ev).conversationHistory.t = "list"

InboundHistory(ev) ==
    IF HistoryAbsent(ev) THEN <<>> ELSE InboundObject(ev).conversationHistory.v

\* The reply is a 200 response whose body is a JSON object.
Reply200Object ==
    /\ reply.kind = "response" /\ reply.code = 200
    /\ reply.body.utf8 /\ reply.body.json /\ reply.body.value.t = "obj"

GeneratedTextPresent == "generated_text" \in DOMAIN reply.body.value.v

GeneratedText == reply.body.value.v.generated_text

IsErrorEnvelope ==
    /\ returned.statusCode = 500
    /\ returned.body.t = "text" /\ returned.body.json
    /\ DOMAIN Payload = {"success", "error"}
    /\ Payload.success = FALSE
    /\ Len(Payload.error) > 0

IsSuccessEnvelope ==
    /\ returned.statusCode = 200
    /\ returned.body.t = "text" /\ returned.body.json
    /\ DOMAIN Payload = {"success", "response", "conversationHistory"}
    /\ Payload.success = TRUE

FixedHeaders ==
    /\ DOMAIN returned.headers =
         { "ContentType", "AccessControlAllowOrigin",
           "AccessControlAllowHeaders", "AccessControlAllowMethods" }
    /\ returned.headers.ContentType = "application/json"
    /\ returned.headers.AccessControlAllowOrigin = "*"
    /\ returned.headers.AccessControlAllowHeaders =
         "Content-Type,X-Amz-Date,Authorization,X-Api-Key,X-Amz-Security-Token"
    /\ returned.headers.AccessControlAllowMethods = "OPTIONS,POST"

----------------------------------------------------------------------------
\* C1: for a valid inbound event and a configured endpoint, a downstream
\* 200 reply whose generated_text is a non-empty string X yields the
\* envelope with statusCode 200, success = true and response = X.
C1_SuccessRelaysGeneratedText ==
    ( /\ Done /\ Configured /\ ValidInbound(event)
      /\ Reply200Object /\ GeneratedTextPresent
      /\ GeneratedText.t = "str" /\ GeneratedText.v # "" )
    => /\ returned.statusCode = 200
       /\ Payload.success = TRUE
       /\ Payload.response = GeneratedText

C1_Witness ==
    /\ Done /\ Configured /\ ValidInbound(event)
    /\ Reply200Object /\ GeneratedTextPresent
    /\ GeneratedText = Str("ok")
    /\ "requestContext" \in DOMAIN event
    /\ returned.statusCode = 200

\* C2: on every successful invocation the returned conversationHistory is
\* the inbound history (empty when absent), in order and unchanged, followed
\* by the user turn and then the assistant turn; a conversationHistory in
\* the downstream response never appears in it.
C2_HistoryIsInboundPlusOneTurn ==
    (Done /\ returned.statusCode = 200)
    => /\ HasMessage(event)
       /\ Reply200Object /\ GeneratedTextPresent
       /\ Payload.conversationHistory =
            List(InboundHistory(event)
                 \o << Obj([role |-> Str("user"),
                            content |-> InboundObject(event).message]),
                       Obj([role |-> Str("assistant"),
                            content |-> GeneratedText]) >>)

C2_Witness ==
    /\ Done /\ returned.statusCode = 200
    /\ "conversationHistory" \in DOMAIN reply.body.value.v
    /\ Len(InboundHistory(event)) >= 2
    /\ InboundHistory(event)[1] = InboundHistory(event)[2]
    /\ Len(Payload.conversationHistory.v) = Len(InboundHistory(event)) + 2

\* C3: with the endpoint URL unset or empty, every invocation returns
\* statusCode 500, success = false and the missing-configuration message,
\* whatever the event holds, and before anything else of the event is read.
C3_MissingConfigurationFirst ==
    (~Configured /\ pc # "idle")
    => /\ Done
       /\ IsErrorEnvelope
       /\ Payload.error =
            <<"Environment variable 'FASTAPI_ENDPOINT_URL' is not set.">>

C3_Witness ==
    /\ Done /\ FASTAPI_ENDPOINT_URL = Str("")
    /\ "body" \notin DOMAIN event
    /\ "requestContext" \in DOMAIN event
    /\ "authorizer" \in DOMAIN event.requestContext.v
    /\ "claims" \notin DOMAIN event.requestContext.v.authorizer.v
    /\ returned.statusCode = 500

\* C4: with the endpoint configured, an inbound body that is not parseable
\* as JSON, or that lacks the key message once parsed, yields statusCode
\* 500 with success = false and an error string, never a success envelope.
C4_ValidationFailure ==
    (Configured /\ pc # "idle" /\ ~HasMessage(event))
    => /\ Done
       /\ IsErrorEnvelope

C4_Witness ==
    /\ Done /\ Configured
    /\ "requestContext" \notin DOMAIN event
    /\ "body" \in DOMAIN event
    /\ event.body = Text(Obj(EmptyMap))
    /\ returned.statusCode = 500
    /\ Payload.error = <<"'message'">>

\* C5: for every downstream HTTP status other than 200, whether raised as
\* an HTTP error or delivered as a response, the handler returns statusCode
\* 500 with success = false and an error message that contains the status.
C5_StatusCodeInError ==
    (Done /\ reply.kind \in {"response", "HTTPError"} /\ reply.code # 200)
    => /\ IsErrorEnvelope
       /\ Contains(Payload.error, StatusText(reply.code))

\* C6: a downstream 200 reply with a JSON object in which generated_text is
\* absent or empty yields statusCode 500, success = false and the message
\* that no content was received; no success envelope has an empty response.
C6_NoContentIsAnError ==
    /\ ( /\ Done /\ Reply200Object
         /\ ~GeneratedTextPresent \/ GeneratedText \in {Str(""), Null} )
       => /\ IsErrorEnvelope
          /\ Payload.error =
               <<"No generated_text content received from FastAPI endpoint.">>
    /\ (Done /\ returned.statusCode = 200)
       => Payload.response \notin {Str(""), Null}

C6_Witness ==
    /\ Done /\ Reply200Object
    /\ GeneratedTextPresent /\ GeneratedText = Str("")
    /\ returned.statusCode = 500

\* The event without its requestContext key.
WithoutRequestContext(ev) ==
    [k \in DOMAIN ev \ {"requestContext"} |-> ev[k]]

\* C7: what the event carries under requestContext changes neither the
\* outbound call nor the envelope: both are those of the same event
\* without requestContext, under the same configuration and reply.
C7_ClaimsDoNotAffectResult ==
    Done =>
      LET base == PreCall(FASTAPI_ENDPOINT_URL, WithoutRequestContext(event)) IN
      IF base.ok
      THEN /\ calls = <<base.req>>
           /\ returned = Envelope(PostCall(base.conversation_history,
                                           base.message, reply))
      ELSE /\ calls = <<>>
           /\ returned = Envelope(base)

\* C8: every invocation ends in exactly one of two outcomes, the full
\* success envelope or the full error envelope, for every failure kind, and
\* both carry the same four fixed headers; before the end there is no
\* envelope at all.
C8_TwoTerminalOutcomes ==
    /\ Done =>
         /\ IsSuccessEnvelope \/ IsErrorEnvelope
         /\ ~(IsSuccessEnvelope /\ IsErrorEnvelope)
         /\ FixedHeaders
    /\ ~Done => returned = NoEnvelope

C8_Witness ==
    /\ Done /\ reply.kind = "URLError"
    /\ IsErrorEnvelope /\ FixedHeaders
    /\ Payload.error[1] = "Failed to connect to FastAPI endpoint:"

\* C10: an invocation issues at most one outbound POST, only after the
\* configuration check and the extraction of the message have succeeded;
\* a failed configuration or validation issues none and a failed call is
\* not followed by a second one.
C10_AtMostOneCall ==
    /\ Len(calls) <= 1
    /\ calls # <<>> =>
         /\ Configured /\ HasMessage(event)
         /\ calls[1].method = "POST"
         /\ calls[1].url = FASTAPI_ENDPOINT_URL
    /\ (pc # "idle" /\ (~Configured \/ ~HasMessage(event))) => calls = <<>>
    /\ (Done /\ reply # NoReply) => Len(calls) = 1

C10_Witness ==
    /\ Done /\ reply.kind = "HTTPError" /\ returned.statusCode = 500
    /\ Len(calls) = 1

====
